---- MODULE Spec2Model ----
(***************************************************************************)
(* A model of homebrew-pypi-poet (src/poet/poet.py): the dependency walk   *)
(* (recursive_dependencies), the metadata lookup (research_package, on the *)
(* public-registry path: AWS_CODEARTIFACT_REPOSITORY unset), the graph     *)
(* builder (make_graph) and the merge (merge_graphs) as driven by          *)
(* resources_for and formula_for, and lint (src/poet/lint.py).             *)
(*                                                                         *)
(* Python strings that are compared, lower-cased or sorted (package names, *)
(* urls, checksums) are sequences of character codes, so that lower() and  *)
(* the order of sorted() are computed and not assumed.  Version strings    *)
(* and extras are only tested for equality and are TLA+ strings.           *)
(***************************************************************************)
EXTENDS Integers, Sequences, FiniteSets, TLC

VARIABLES
    pc,            \* where the program is
    roots,         \* the packages argument: a sequence of parsed Requirements
    ri,            \* index of the root whose graph is being built
    ws,            \* pkg_resources.working_set: key -> installed distribution
    pypi,          \* the registry: key -> revision of its JSON description
    publishes,     \* releases published since the start (environment)
    discovered,    \* recursive_dependencies: set of lower-cased names
    visited,       \* recursive_dependencies: set of Requirement identities
    stack,         \* recursive_dependencies: the pending walk() calls
    pkg_deps,      \* what recursive_dependencies returned
    dependencies,  \* make_graph: insertion-ordered dict, <<key, record>>
    di,            \* make_graph: position of the running for-loop
    graphs,        \* the graphs make_graph has returned so far
    result,        \* merge_graphs: insertion-ordered dict being folded
    mi,            \* merge_graphs: position in the keys of the current graph
    merged,        \* what merge_graphs returned
    call,          \* research_package called alone: its arguments
    ret,           \* research_package called alone: what it returned
    events,        \* warnings, log lines and network requests, in order
    exc,           \* the exception that ended the run, or "none"
    formula,       \* formula_for: what it hands to FORMULA_TEMPLATE.render
    buf,           \* lint: the text it is given, as a sequence of tokens
    output,        \* lint: the list of stanzas it has collected
    linted         \* lint: the text it returned

vars == <<pc, roots, ri, ws, pypi, publishes, discovered, visited, stack,
          pkg_deps, dependencies, di, graphs, result, mi, merged, call, ret, events, exc,
          formula, buf, output, linted>>

----------------------------------------------------------------------------
(* Bounds of the model *)

MaxRoots == 2
MaxPublishes == 1
MaxReleases == 2
RecursionLimit == 8
MaxStanzas == 2

----------------------------------------------------------------------------
(* Strings *)

\* str.lower() on ASCII
lower(s) == [i \in 1..Len(s) |-> IF s[i] >= 65 /\ s[i] <= 90 THEN s[i] + 32 ELSE s[i]]

\* str.__lt__: lexicographic by code point, a proper prefix first
RECURSIVE StrLess(_, _)
StrLess(s, t) ==
    IF t = <<>> THEN FALSE
    ELSE IF s = <<>> THEN TRUE
    ELSE IF Head(s) # Head(t) THEN Head(s) < Head(t)
    ELSE StrLess(Tail(s), Tail(t))

\* a list of the names in descending order (mutant of sorted)
RECURSIVE sortedDescending(_)
sortedDescending(S) ==
    IF S = {} THEN <<>>
    ELSE LET m == CHOOSE x \in S : \A y \in S \ {x} : StrLess(y, x)
         IN  <<m>> \o sortedDescending(S \ {m})

\* sorted(iterable of distinct str): ascending list
RECURSIVE sorted(_)
sorted(S) ==
    IF S = {} THEN <<>>
    ELSE LET m == CHOOSE x \in S : \A y \in S \ {x} : StrLess(x, y)
         IN  <<m>> \o sorted(S \ {m})

\* pkg_resources.safe_name: runs of characters outside [A-Za-z0-9.] become "-"
SafeChar(c) == (c >= 48 /\ c <= 57) \/ (c >= 65 /\ c <= 90) \/ (c >= 97 /\ c <= 122) \/ c = 46

RECURSIVE safe_name(_)
safe_name(s) ==
    IF s = <<>> THEN <<>>
    ELSE IF SafeChar(Head(s)) THEN <<Head(s)>> \o safe_name(Tail(s))
    ELSE LET rest == safe_name(Tail(s))
         IN  IF Tail(s) # <<>> /\ ~SafeChar(Head(Tail(s)))
             THEN rest ELSE <<45>> \o rest

EmptyStr == <<>>

\* the package names of the model
n_a == <<97>>
n_A == <<65>>
n_b == <<98>>
n_B == <<66>>
n_pip == <<112, 105, 112>>
n_root == <<114, 111, 111, 116>>
n_Root == <<82, 111, 111, 116>>
n_requests == <<114, 101, 113, 117, 101, 115, 116, 115>>
n_argparse == <<97, 114, 103, 112, 97, 114, 115, 101>>
n_setuptools == <<115, 101, 116, 117, 112, 116, 111, 111, 108, 115>>
n_wsgiref == <<119, 115, 103, 105, 114, 101, 102>>

Keys == {n_a, n_b, n_pip, n_root}

----------------------------------------------------------------------------
(* Insertion-ordered dicts: sequences of <<key, value>> *)

DictKeys(d) == [i \in 1..Len(d) |-> d[i][1]]
KeySet(d) == {d[i][1] : i \in 1..Len(d)}
DictGet(d, k) == (CHOOSE i \in 1..Len(d) : d[i][1] = k)
DictVal(d, k) == d[DictGet(d, k)][2]
DictSet(d, k, v) ==
    IF k \in KeySet(d) THEN [d EXCEPT ![DictGet(d, k)] = <<k, v>>]
    ELSE Append(d, <<k, v>>)

----------------------------------------------------------------------------
(* pkg_resources: requirements and the working set *)

NoPin == "any"
Extras == {"security"}

\* Requirement.parse: project_name is the safe name, key its lower case
Requirement(name, extras, pin) ==
    [project_name |-> safe_name(name), key |-> lower(safe_name(name)),
     extras |-> extras, pin |-> pin]

\* Requirement.hashCmp: what equality and hashing of Requirements go by
hashCmp(req) == <<req.key, req.pin, req.extras>>

\* Requirement.__eq__ against a str: isinstance(other, Requirement) is false
RequirementEqStr(req, s) == FALSE

NotInstalled == [installed |-> FALSE, version |-> "None", requires |-> <<>>,
                 extra_names |-> {}, extra_requires |-> [e \in Extras |-> <<>>]]

Dist(version, requires, extra_names, extra_requires) ==
    [installed |-> TRUE, version |-> version, requires |-> requires,
     extra_names |-> extra_names, extra_requires |-> extra_requires]

\* a lookup whose failure for an absent distribution the walk does not
\* catch (mutant of GetRequires)
GetRequiresAbsentFails(package, extras) ==
    LET dist == ws[package.key] IN
    IF ~dist.installed
    THEN [exc |-> "ResolutionError", reqs |-> <<>>]
    ELSE IF package.pin # NoPin /\ package.pin # dist.version
    THEN [exc |-> "VersionConflict", reqs |-> <<>>]
    ELSE IF ~(extras \subseteq dist.extra_names)
    THEN [exc |-> "UnknownExtra", reqs |-> <<>>]
    ELSE [exc |-> "none",
          reqs |-> dist.requires \o
                   (IF "security" \in extras THEN dist.extra_requires["security"] ELSE <<>>)]

\* pkg_resources.get_distribution(package).requires(extras)
GetRequires(package, extras) ==
    LET dist == ws[package.key] IN
    IF ~dist.installed
    THEN [exc |-> "DistributionNotFound", reqs |-> <<>>]
    ELSE IF package.pin # NoPin /\ package.pin # dist.version
    THEN [exc |-> "VersionConflict", reqs |-> <<>>]
    ELSE IF ~(extras \subseteq dist.extra_names)
    THEN [exc |-> "UnknownExtra", reqs |-> <<>>]
    ELSE [exc |-> "none",
          reqs |-> dist.requires \o
                   (IF "security" \in extras THEN dist.extra_requires["security"] ELSE <<>>)]

----------------------------------------------------------------------------
(* recursive_dependencies *)

\* walk without its visited test (mutant of InVisited)
InVisitedNever(package) == FALSE

\* line 73: package in visited
InVisited(package) == hashCmp(package) \in visited

\* lines 76-78: the extras the requirements are looked up with
WalkExtras(package) ==
    IF RequirementEqStr(package, n_requests)
    THEN package.extras \cup {"security"}
    ELSE package.extras

\* a frame is one running "for req in reqs" loop; the call of line 87 is the
\* loop over the root alone
Frame(reqs) == [reqs |-> reqs, i |-> 1]

\* a walk that does not count the root itself (mutant of InitialDiscovered)
InitialDiscoveredNone(package) == {}

\* line 67: discovered starts as the lower-cased name of the root
InitialDiscovered(package) == {lower(package.project_name)}

\* lines 63-68 and the call of line 87
RecursiveDependencies ==
    /\ pc = "deps"
    /\ discovered' = InitialDiscovered(roots[ri])
    /\ visited' = {}
    /\ stack' = <<Frame(<<roots[ri]>>)>>
    /\ pc' = "walk"
    /\ UNCHANGED <<roots, ri, ws, pypi, publishes, pkg_deps, dependencies, di,
                   graphs, result, mi, merged, call, ret, events, exc, formula,
                   buf, output, linted>>

\* one call walk(package), lines 70-85, up to its loop over reqs
WalkCall ==
    /\ pc = "walk"
    /\ stack # <<>>
    /\ stack[Len(stack)].i <= Len(stack[Len(stack)].reqs)
    /\ Len(stack) <= RecursionLimit
    /\ LET top == stack[Len(stack)]
           package == top.reqs[top.i]
           advanced == [stack EXCEPT ![Len(stack)].i = top.i + 1]
           got == GetRequires(package, WalkExtras(package))
       IN  IF InVisited(package)
           THEN /\ stack' = advanced
                /\ UNCHANGED <<visited, discovered, pc, exc>>
           ELSE /\ visited' = visited \cup {hashCmp(package)}
                /\ IF got.exc = "DistributionNotFound"
                   THEN /\ stack' = advanced
                        /\ UNCHANGED <<discovered, pc, exc>>
                   ELSE IF got.exc # "none"
                   THEN /\ pc' = "raised"
                        /\ exc' = got.exc
                        /\ UNCHANGED <<stack, discovered>>
                   ELSE /\ discovered' = discovered \cup
                               {lower(got.reqs[j].project_name) : j \in 1..Len(got.reqs)}
                        /\ stack' = Append(advanced, Frame(got.reqs))
                        /\ UNCHANGED <<pc, exc>>
    /\ UNCHANGED <<roots, ri, ws, pypi, publishes, pkg_deps, dependencies, di,
                   graphs, result, mi, merged, call, ret, events, formula,
                   buf, output, linted>>

\* the loop of lines 84-85 is exhausted: walk returns to its caller
WalkReturn ==
    /\ pc = "walk"
    /\ stack # <<>>
    /\ stack[Len(stack)].i > Len(stack[Len(stack)].reqs)
    /\ stack' = SubSeq(stack, 1, Len(stack) - 1)
    /\ UNCHANGED <<pc, roots, ri, ws, pypi, publishes, discovered, visited, pkg_deps,
                   dependencies, di, graphs, result, mi, merged, call, ret, events, exc, formula,
                   buf, output, linted>>

\* line 88
RecursiveDependenciesReturn ==
    /\ pc = "walk"
    /\ stack = <<>>
    /\ pkg_deps' = sorted(discovered)
    /\ pc' = "walked"
    /\ UNCHANGED <<roots, ri, ws, pypi, publishes, discovered, visited, stack,
                   dependencies, di, graphs, result, mi, merged, call, ret, events, exc, formula,
                   buf, output, linted>>

----------------------------------------------------------------------------
(* research_package, lines 256-327, on the public-registry path *)

None == "None"

\* what happened, in order: kind is "call", "log", "urlopen" or "warn"
Ev(kind, what, name, version, url) ==
    [kind |-> kind, what |-> what, name |-> name, version |-> version, url |-> url]

\* version strings packaging.version.parse rejects (not PEP 440)
InvalidVersions == {"2004d"}

\* lines 268-275: the version the lookup goes on with
ParsedVersion(version) ==
    IF version = None \/ version \in InvalidVersions THEN None ELSE version

\* lines 270-275: the log line of a version that does not parse
ParseLog(name, version) ==
    IF version = None
    THEN <<Ev("log", "Could not parse version", name, version, EmptyStr)>>
    ELSE IF version \in InvalidVersions
    THEN <<Ev("log", "Invalid version", name, version, EmptyStr)>>
    ELSE <<>>

\* pkg_resources.safe_version on the version strings of the model: a valid
\* version is normalised ("3.2.3-2" is the post-release 3.2.3.post2), and the
\* others hold no character that is replaced
safe_version(v) == IF v = "3.2.3-2" THEN "3.2.3.post2" ELSE v

\* line 292: if version
Truthy(version) == version # None /\ version # ""

NoArtefact == [packagetype |-> "none", url |-> EmptyStr, has_sha256 |-> FALSE,
               sha256 |-> EmptyStr, content |-> EmptyStr]

\* hashlib.sha256(data).hexdigest(), abstracted: a string made from the data
\* that differs from the data and from the digest of any other data
sha256(data) == <<120>> \o [i \in 1..Len(data) |-> data[i] + 1]

\* the first artefact whatever its packagetype (mutant of FirstSdist)
FirstFile(files) == IF files = <<>> THEN NoArtefact ELSE files[1]

\* lines 295-298 and 307-310: the first sdist of a list of artefacts
FirstSdist(files) ==
    IF \E i \in 1..Len(files) : files[i].packagetype = "sdist"
    THEN files[CHOOSE i \in 1..Len(files) :
                   /\ files[i].packagetype = "sdist"
                   /\ \A j \in 1..(i - 1) : files[j].packagetype # "sdist"]
    ELSE NoArtefact

\* the loop comparing the registry's version string as it is (mutant of
\* MatchRelease)
RECURSIVE MatchReleaseRaw(_, _, _, _)
MatchReleaseRaw(releases, version, i, artefact) ==
    IF i > Len(releases) THEN artefact
    ELSE LET found == FirstSdist(releases[i].files)
         IN  MatchReleaseRaw(releases, version, i + 1,
                 IF releases[i].version = version /\ found # NoArtefact
                 THEN found ELSE artefact)

\* lines 293-298: the loop over the releases, from release i on; the break
\* leaves the inner loop only, so a later matching release with an sdist
\* replaces the artefact of an earlier one
RECURSIVE MatchRelease(_, _, _, _)
MatchRelease(releases, version, i, artefact) ==
    IF i > Len(releases) THEN artefact
    ELSE LET found == FirstSdist(releases[i].files)
         IN  MatchRelease(releases, version, i + 1,
                 IF safe_version(releases[i].version) = version /\ found # NoArtefact
                 THEN found ELSE artefact)

\* lines 291-310: the artefact chosen
ChosenArtefact(version, pkg_data) ==
    LET exact == IF Truthy(version)
                 THEN MatchRelease(pkg_data.releases, version, 1, NoArtefact)
                 ELSE NoArtefact
    IN  IF exact = NoArtefact THEN FirstSdist(pkg_data.urls) ELSE exact

\* the described digest never used (mutant of HasDigest)
HasDigestNever(artefact) == FALSE

\* line 314: "digests" in artefact and "sha256" in artefact["digests"]
HasDigest(artefact) == artefact.has_sha256

JsonUrl(name) == <<106>> \o name

\* research_package(name, version) when the registry answers pkg_data:
\* the dict it returns and what it does on the way
ResearchPackage(name, version0, pkg_data) ==
    LET version == ParsedVersion(version0)
        exact == IF Truthy(version)
                 THEN MatchRelease(pkg_data.releases, version, 1, NoArtefact)
                 ELSE NoArtefact
        artefact == ChosenArtefact(version, pkg_data)
        notfound == IF Truthy(version) /\ exact = NoArtefact
                    THEN <<Ev("warn", "PackageVersionNotFoundWarning", name, version, EmptyStr)>>
                    ELSE <<>>
        checksum == IF artefact = NoArtefact THEN EmptyStr
                    ELSE IF HasDigest(artefact) THEN artefact.sha256
                    ELSE sha256(artefact.content)
        tail == IF artefact = NoArtefact
                THEN <<Ev("warn", "UserWarning", name, version, EmptyStr)>>
                ELSE IF HasDigest(artefact)
                THEN <<Ev("log", "Using provided checksum", name, version, EmptyStr)>>
                ELSE <<Ev("log", "Fetching sdist", name, version, EmptyStr),
                       Ev("urlopen", "sdist", name, version, artefact.url),
                       Ev("log", "Done fetching", name, version, EmptyStr)>>
    IN  [d |-> [name |-> pkg_data.info.name,
                homepage |-> IF pkg_data.info.has_home_page
                             THEN pkg_data.info.home_page ELSE EmptyStr,
                url |-> IF artefact = NoArtefact THEN EmptyStr ELSE artefact.url,
                checksum |-> checksum,
                checksum_type |-> <<115, 104, 97, 50, 53, 54>>],
         ev |-> <<Ev("call", "research_package", name, version0, EmptyStr)>>
                \o ParseLog(name, version0)
                \o <<Ev("urlopen", "json", name, version, JsonUrl(name))>>
                \o notfound \o tail]

----------------------------------------------------------------------------
(* The inputs of the walk: root specifiers and working sets *)

R_a == Requirement(n_a, {}, NoPin)
R_A == Requirement(n_A, {}, NoPin)
R_B == Requirement(n_B, {}, NoPin)
R_root == Requirement(n_root, {}, NoPin)
R_Root == Requirement(n_Root, {}, NoPin)
R_pip == Requirement(n_pip, {}, NoPin)
R_Bsec == Requirement(n_B, {"security"}, NoPin)
R_apin == Requirement(n_a, {}, "2.0")
R_requests == Requirement(n_requests, {}, NoPin)
R_requestssec == Requirement(n_requests, {"security"}, NoPin)

\* the j-th smallest element of a set of numbers
Nth(I, j) == CHOOSE i \in I : Cardinality({k \in I : k < i}) = j - 1

\* the lists of distinct elements of seq, in the order of seq
SubLists(seq) ==
    {[j \in 1..Cardinality(I) |-> seq[Nth(I, j)]] : I \in SUBSET (1..Len(seq))}

NoExtraRequires == [e \in Extras |-> <<>>]

\* a distribution that is absent, or present with one of the lists of reqs
PlainDists(reqs) ==
    {NotInstalled} \cup {Dist("1.0", l, {}, NoExtraRequires) : l \in SubLists(reqs)}

\* a distribution that declares the extra "security", requiring a
ExtraDists(reqs) ==
    {Dist("1.0", l, {"security"}, [e \in Extras |-> <<R_a>>]) : l \in SubLists(reqs)}

\* every requirement relation over root, a and b (any distribution may be
\* absent), with requirements that carry an extra or a version pin as well
WalkWorlds ==
    {[k \in Keys |-> CASE k = n_a -> da [] k = n_b -> db [] k = n_root -> dr
                        [] OTHER -> NotInstalled] :
        da \in PlainDists(<<R_a, R_B, R_root, R_Bsec, R_apin>>),
        dr \in PlainDists(<<R_a, R_B, R_Bsec, R_apin>>),
        db \in PlainDists(<<R_a, R_B, R_root>>) \cup ExtraDists(<<R_a, R_B, R_root>>)}

\* working sets for a walk from "requests": requests is absent, or installed
\* with an extra "security" that requires B and with or without a plain
\* requirement on a; a may require requests, with the extra or without; b
\* may require a
RequestsWorlds ==
    {[k \in Keys \cup {n_requests} |->
         CASE k = n_requests -> dq [] k = n_a -> da [] k = n_b -> db
           [] OTHER -> NotInstalled] :
        dq \in {NotInstalled} \cup
               {Dist("2.0", l, {"security"}, [e \in Extras |-> <<R_B>>]) : l \in SubLists(<<R_a>>)},
        da \in PlainDists(<<R_requests, R_requestssec>>),
        db \in PlainDists(<<R_a>>)}

NoPkgData == [info |-> [name |-> EmptyStr, has_home_page |-> FALSE, home_page |-> EmptyStr],
              releases |-> <<>>, urls |-> <<>>]
NoCall == [name |-> EmptyStr, version |-> None, pkg_data |-> NoPkgData]
\* formula_for has rendered nothing
NoFormula == [rendered |-> FALSE, package |-> <<>>, resources |-> <<>>]

NoRecord == [name |-> EmptyStr, homepage |-> EmptyStr, url |-> EmptyStr,
             checksum |-> EmptyStr, checksum_type |-> EmptyStr]

InitWalk ==
    /\ pc = "deps"
    /\ \/ roots = <<R_root>> /\ ws \in WalkWorlds
       \/ roots = <<R_requests>> /\ ws \in RequestsWorlds
    /\ ri = 1
    /\ pypi = [k \in Keys |-> 0]
    /\ publishes = 0
    /\ discovered = {}
    /\ visited = {}
    /\ stack = <<>>
    /\ pkg_deps = <<>>
    /\ dependencies = <<>>
    /\ di = 0
    /\ graphs = <<>>
    /\ result = <<>>
    /\ mi = 0
    /\ merged = <<>>
    /\ call = NoCall
    /\ ret = NoRecord
    /\ events = <<>>
    /\ exc = "none"
    /\ formula = NoFormula
    /\ buf = <<>>
    /\ output = <<>>
    /\ linted = <<>>

NextWalk ==
    \/ RecursiveDependencies
    \/ WalkCall
    \/ WalkReturn
    \/ RecursiveDependenciesReturn

\* the walk is sequential code: a step that can run does run
SpecWalk == InitWalk /\ [][NextWalk]_vars /\ WF_vars(NextWalk)

----------------------------------------------------------------------------
(* research_package called alone (poet -s, the unit tests): its inputs *)

\* the file f of release r (r = 0: of the urls list); every file has its own
\* url and content
FileUrl(r, f) == <<117, 48 + r, 48 + f>>
FileContent(r, f) == <<10 * r + f>>

Wheel(r, f) == [packagetype |-> "bdist_wheel", url |-> FileUrl(r, f), has_sha256 |-> TRUE,
                sha256 |-> sha256(FileContent(r, f)), content |-> FileContent(r, f)]
\* an sdist with its digest in the description
SdistDigest(r, f) == [packagetype |-> "sdist", url |-> FileUrl(r, f), has_sha256 |-> TRUE,
                      sha256 |-> sha256(FileContent(r, f)), content |-> FileContent(r, f)]
\* an sdist of an old-style description, without digests
SdistPlain(r, f) == [packagetype |-> "sdist", url |-> FileUrl(r, f), has_sha256 |-> FALSE,
                     sha256 |-> EmptyStr, content |-> FileContent(r, f)]
\* an sdist whose described digest is not the digest of what the url serves
SdistStale(r, f) == [packagetype |-> "sdist", url |-> FileUrl(r, f), has_sha256 |-> TRUE,
                     sha256 |-> sha256(<<99>>), content |-> FileContent(r, f)]

FileLists(r) ==
    {<<>>, <<Wheel(r, 1)>>, <<SdistPlain(r, 1)>>, <<SdistStale(r, 1)>>,
     <<Wheel(r, 1), SdistDigest(r, 2), SdistPlain(r, 3)>>}

ReleaseVersions == {"1.0", "3.2.3-2", "3.2.3.post2", "2004d"}

\* "releases" is a JSON object: its version keys are distinct
ReleaseKeys(n) ==
    {vs \in [1..n -> ReleaseVersions] : \A i, j \in 1..n : i # j => vs[i] # vs[j]}

ReleaseFiles(n) ==
    {fs \in [1..n -> UNION {FileLists(i) : i \in 1..n}] : \A i \in 1..n : fs[i] \in FileLists(i)}

Releases ==
    UNION {{[i \in 1..n |-> [version |-> vs[i], files |-> fs[i]]] :
               vs \in ReleaseKeys(n), fs \in ReleaseFiles(n)} :
           n \in 0..MaxReleases}

PkgDatas ==
    [info : [name : {n_A}, has_home_page : BOOLEAN, home_page : {<<104>>}],
     releases : Releases, urls : FileLists(0)]

VersionArgs == {None, "1.0", "3.2.3.post2", "3.2.3-2", "2004d"}

InitResearch ==
    /\ pc = "research"
    /\ call \in [name : {n_a}, version : VersionArgs, pkg_data : PkgDatas]
    /\ roots = <<>>
    /\ ri = 0
    /\ ws = [k \in Keys |-> NotInstalled]
    /\ pypi = [k \in Keys |-> 0]
    /\ publishes = 0
    /\ discovered = {}
    /\ visited = {}
    /\ stack = <<>>
    /\ pkg_deps = <<>>
    /\ dependencies = <<>>
    /\ di = 0
    /\ graphs = <<>>
    /\ result = <<>>
    /\ mi = 0
    /\ merged = <<>>
    /\ ret = NoRecord
    /\ events = <<>>
    /\ exc = "none"
    /\ formula = NoFormula
    /\ buf = <<>>
    /\ output = <<>>
    /\ linted = <<>>

\* research_package(call.name, call.version), the registry answering call.pkg_data
ResearchAlone ==
    /\ pc = "research"
    /\ LET r == ResearchPackage(call.name, call.version, call.pkg_data)
       IN  /\ ret' = r.d
           /\ events' = events \o r.ev
    /\ pc' = "researched"
    /\ UNCHANGED <<roots, ri, ws, pypi, publishes, discovered, visited, stack, pkg_deps,
                   dependencies, di, graphs, result, mi, merged, call, exc, formula,
                   buf, output, linted>>

NextResearch == ResearchAlone

SpecResearch == InitResearch /\ [][NextResearch]_vars

----------------------------------------------------------------------------
(* The registry as make_graph meets it *)

RevVersions == <<"1.0", "2.0", "3.0", "4.0">>

\* the name the registry spells the project with
DisplayName(key) == IF key = n_b THEN n_B ELSE key

\* the sdist of release i of a project; those of b are described without
\* digests
KeySdist(key, i) ==
    [packagetype |-> "sdist", url |-> <<117>> \o key \o <<48 + i>>,
     has_sha256 |-> key # n_b,
     sha256 |-> IF key # n_b THEN sha256(key \o <<i>>) ELSE EmptyStr,
     content |-> key \o <<i>>]

\* the JSON description of a project after rev further releases: releases
\* 1.0 .. and urls, the files of the newest release
Description(key, rev) ==
    [info |-> [name |-> DisplayName(key), has_home_page |-> TRUE, home_page |-> <<104>> \o key],
     releases |-> [i \in 1..(rev + 1) |->
                     [version |-> RevVersions[i], files |-> <<KeySdist(key, i)>>]],
     urls |-> <<KeySdist(key, rev + 1)>>]

----------------------------------------------------------------------------
(* make_graph, lines 330-361 *)

\* line 338
ignore == <<n_argparse, n_pip, n_setuptools, n_wsgiref>>

\* nothing ignored (mutant of NotIgnored)
NotIgnoredAny(key) == TRUE

\* line 341: key not in ignore
NotIgnored(key) == \A i \in 1..Len(ignore) : ignore[i] # key

\* a dict with one more key set (d[k] = v), and dict.update
PyEmptyDict == [f \in {} |-> None]
PySetItem(d, k, v) == [f \in DOMAIN d \cup {k} |-> IF f = k THEN v ELSE d[f]]
PyUpdate(d, other) ==
    [f \in DOMAIN d \cup DOMAIN other |-> IF f \in DOMAIN other THEN other[f] ELSE d[f]]

\* OrderedDict of the items in sorted key order (lines 359-361)
MakeGraphOrdered(d) ==
    [i \in 1..Len(d) |-> <<sorted(KeySet(d))[i], DictVal(d, sorted(KeySet(d))[i])>>]

\* every name taken as installed, with no version known (mutant of InVersions)
InVersionsNever(package) == FALSE

\* lines 342-343: the versions dict of the working set, and its keys
InVersions(package) == ws[package].installed
versions(package) == ws[package].version

\* the generator of line 394 is asked for its next graph: make_graph(p),
\* lines 338-339 up to the call of recursive_dependencies
MakeGraph ==
    /\ pc = "merge_next"
    /\ ri < Len(roots)
    /\ ri' = ri + 1
    /\ events' = Append(events, Ev("call", "make_graph", roots[ri + 1].project_name, None, EmptyStr))
    /\ pc' = "deps"
    /\ UNCHANGED <<roots, ws, pypi, publishes, discovered, visited, stack, pkg_deps,
                   dependencies, di, graphs, result, mi, merged, call, ret, exc, formula,
                   buf, output, linted>>

\* lines 341-343
MakeGraphFilter ==
    /\ pc = "walked"
    /\ dependencies' = [i \in 1..Len(SelectSeq(pkg_deps, NotIgnored)) |->
                            <<SelectSeq(pkg_deps, NotIgnored)[i], PyEmptyDict>>]
    /\ di' = 1
    /\ pc' = IF SelectSeq(pkg_deps, NotIgnored) = <<>> THEN "return_graph" ELSE "versions"
    /\ UNCHANGED <<roots, ri, ws, pypi, publishes, discovered, visited, stack, pkg_deps,
                   graphs, result, mi, merged, call, ret, events, exc, formula,
                   buf, output, linted>>

\* one turn of the loop of lines 344-353
MakeGraphVersion ==
    /\ pc = "versions"
    /\ di <= Len(dependencies)
    /\ LET package == dependencies[di][1] IN
       IF InVersions(package)
       THEN /\ dependencies' = [dependencies EXCEPT ![di][2] =
                                   PySetItem(@, "version", versions(package))]
            /\ UNCHANGED events
       ELSE /\ events' = Append(events,
                             Ev("warn", "PackageNotInstalledWarning", package, None, EmptyStr))
            /\ dependencies' = [dependencies EXCEPT ![di][2] = PySetItem(@, "version", None)]
    /\ di' = IF di = Len(dependencies) THEN 1 ELSE di + 1
    /\ pc' = IF di = Len(dependencies) THEN "research" ELSE "versions"
    /\ UNCHANGED <<roots, ri, ws, pypi, publishes, discovered, visited, stack, pkg_deps,
                   graphs, result, mi, merged, call, ret, exc, formula,
                   buf, output, linted>>

\* the projects of which the registry publishes a further release while the
\* program runs: the reply to the request of line 284 for such a project may
\* describe one release more than the reply before
Publishing == {n_a}

\* one turn of the loop of lines 355-357; the registry is not the program's:
\* it may have published a release of the package since the last request
MakeGraphResearch ==
    /\ pc = "research"
    /\ di <= Len(dependencies)
    /\ \E published \in (IF dependencies[di][1] \in Publishing THEN 0..1 ELSE {0}) :
          /\ publishes + published <= MaxPublishes
          /\ publishes' = publishes + published
          /\ LET package == dependencies[di][1]
                 rev == pypi[package] + published
                 r == ResearchPackage(package, dependencies[di][2]["version"],
                                      Description(package, rev))
             IN  /\ pypi' = [pypi EXCEPT ![package] = rev]
                 /\ dependencies' = [dependencies EXCEPT ![di][2] = PyUpdate(@, r.d)]
                 /\ events' = events \o r.ev
    /\ di' = IF di = Len(dependencies) THEN 1 ELSE di + 1
    /\ pc' = IF di = Len(dependencies) THEN "return_graph" ELSE "research"
    /\ UNCHANGED <<roots, ri, ws, discovered, visited, stack, pkg_deps,
                   graphs, result, mi, merged, call, ret, exc, formula,
                   buf, output, linted>>

\* lines 359-361; the graph goes to the loop of merge_graphs (line 408)
MakeGraphReturn ==
    /\ pc = "return_graph"
    /\ graphs' = Append(graphs, MakeGraphOrdered(dependencies))
    /\ mi' = 1
    /\ pc' = IF dependencies = <<>> THEN "merge_next" ELSE "merge_keys"
    /\ UNCHANGED <<roots, ri, ws, pypi, publishes, discovered, visited, stack, pkg_deps,
                   dependencies, di, result, merged, call, ret, events, exc, formula,
                   buf, output, linted>>

----------------------------------------------------------------------------
(* merge_graphs, lines 406-422 *)

\* lines 415-419: the message is formatted with {l.name}, {l.version}: the
\* attributes name and version of the records.  The records are the dicts
\* of line 341, which have keys and no such attributes
HasAttr(record, attr) == FALSE

\* the test of line 412 never true (mutant of SameRecord)
SameRecordNever(l, r) == FALSE

\* line 412: result[key] == g[key]
SameRecord(l, r) == l = r

\* the items in insertion order (mutant of MergeOrdered)
MergeUnordered(d) == d

\* OrderedDict of the items in sorted key order (line 422)
MergeOrdered(d) ==
    [i \in 1..Len(d) |-> <<sorted(KeySet(d))[i], DictVal(d, sorted(KeySet(d))[i])>>]

\* one turn of the loop of lines 409-421 over the keys of the graph just built
MergeKey ==
    /\ pc = "merge_keys"
    /\ mi <= Len(graphs[ri])
    /\ LET g == graphs[ri]
           key == g[mi][1]
           ends == mi = Len(g)
       IN  IF key \notin KeySet(result)
           THEN /\ result' = DictSet(result, key, g[mi][2])
                /\ mi' = IF ends THEN 1 ELSE mi + 1
                /\ pc' = IF ends THEN "merge_next" ELSE "merge_keys"
                /\ UNCHANGED <<events, exc>>
           ELSE IF SameRecord(DictVal(result, key), g[mi][2])
           THEN /\ mi' = IF ends THEN 1 ELSE mi + 1
                /\ pc' = IF ends THEN "merge_next" ELSE "merge_keys"
                /\ UNCHANGED <<result, events, exc>>
           ELSE IF HasAttr(DictVal(result, key), "name") /\ HasAttr(g[mi][2], "name")
           THEN /\ events' = Append(events,
                       Ev("warn", "ConflictingDependencyWarning", key,
                          DictVal(result, key)["version"], EmptyStr))
                /\ mi' = IF ends THEN 1 ELSE mi + 1
                /\ pc' = IF ends THEN "merge_next" ELSE "merge_keys"
                /\ UNCHANGED <<result, exc>>
           ELSE /\ pc' = "raised"
                /\ exc' = "AttributeError"
                /\ UNCHANGED <<result, mi, events>>
    /\ UNCHANGED <<roots, ri, ws, pypi, publishes, discovered, visited, stack, pkg_deps,
                   dependencies, di, graphs, merged, call, ret, formula,
                   buf, output, linted>>

\* the generator is exhausted: line 422
MergeGraphsReturn ==
    /\ pc = "merge_next"
    /\ ri = Len(roots)
    /\ merged' = MergeOrdered(result)
    /\ pc' = "done"
    /\ UNCHANGED <<roots, ri, ws, pypi, publishes, discovered, visited, stack, pkg_deps,
                   dependencies, di, graphs, result, mi, call, ret, events, exc, formula,
                   buf, output, linted>>

----------------------------------------------------------------------------
(* formula_for(package, also), lines 364-390: after the merge of line 370 *)

\* a filter that compares the names as they are spelled (mutant of
\* IsResource)
IsResourceExact(key, package_name) == key # package_name

\* line 372: key.lower() != package_name.lower()
IsResource(key, package_name) == lower(key) # lower(package_name)

Missing == <<0>>

\* a lookup under the given spelling alone (mutant of FindRoot)
FindRootExact(nodes, package_name) ==
    IF package_name \in KeySet(nodes) THEN package_name ELSE Missing

\* lines 375-378: the key the root's record is found under
FindRoot(nodes, package_name) ==
    IF package_name \in KeySet(nodes) THEN package_name
    ELSE IF lower(package_name) \in KeySet(nodes) THEN lower(package_name)
    ELSE Missing

\* lines 367-390, from the graph merge_graphs returned to the arguments of
\* FORMULA_TEMPLATE.render, or to the exception of line 380
FormulaFor ==
    /\ pc = "done"
    /\ LET package_name == roots[1].project_name
           items == SelectSeq(merged, LAMBDA item : IsResource(item[1], package_name))
           resources == [i \in 1..Len(items) |-> items[i][2]]
           found == FindRoot(merged, package_name)
       IN  IF found = Missing
           THEN /\ pc' = "raised"
                /\ exc' = "Exception"
                /\ UNCHANGED formula
           ELSE /\ formula' = [rendered |-> TRUE, package |-> DictVal(merged, found),
                               resources |-> resources]
                /\ pc' = "rendered"
                /\ UNCHANGED exc
    /\ UNCHANGED <<roots, ri, ws, pypi, publishes, discovered, visited, stack, pkg_deps,
                   dependencies, di, graphs, result, mi, merged, call, ret, events,
                   buf, output, linted>>

----------------------------------------------------------------------------
(* resources_for(packages), lines 393-394: its inputs and its run *)

RootSpecs == {R_root, R_A, R_pip}

RootLists == UNION {[1..n -> RootSpecs] : n \in 1..MaxRoots}

\* an installed distribution, version 1.0, that requires reqs and declares
\* no extra
Plain(reqs) == Dist("1.0", reqs, {}, NoExtraRequires)

\* working sets over root, a, b and pip: each of them absent or installed;
\* root requires a, pip or both, a requires nothing or B, b requires a (a
\* cycle) or a at a version that is not the installed one, pip requires B
Worlds ==
    {[k \in Keys |-> CASE k = n_a -> da [] k = n_b -> db [] k = n_root -> dr [] k = n_pip -> dp] :
        dr \in {NotInstalled, Plain(<<R_a>>), Plain(<<R_pip>>), Plain(<<R_a, R_pip>>)},
        da \in {NotInstalled, Plain(<<>>), Plain(<<R_B>>)},
        db \in {NotInstalled, Plain(<<R_a>>), Plain(<<R_apin>>)},
        dp \in {NotInstalled, Plain(<<R_B>>)}}

Init ==
    /\ pc = "merge_next"
    /\ roots \in RootLists
    /\ ri = 0
    /\ ws \in Worlds
    /\ pypi = [k \in Keys |-> 0]
    /\ publishes = 0
    /\ discovered = {}
    /\ visited = {}
    /\ stack = <<>>
    /\ pkg_deps = <<>>
    /\ dependencies = <<>>
    /\ di = 0
    /\ graphs = <<>>
    /\ result = <<>>
    /\ mi = 0
    /\ merged = <<>>
    /\ call = NoCall
    /\ ret = NoRecord
    /\ events = <<>>
    /\ exc = "none"
    /\ formula = NoFormula
    /\ buf = <<>>
    /\ output = <<>>
    /\ linted = <<>>

Next ==
    \/ MakeGraph
    \/ RecursiveDependencies
    \/ WalkCall
    \/ WalkReturn
    \/ RecursiveDependenciesReturn
    \/ MakeGraphFilter
    \/ MakeGraphVersion
    \/ MakeGraphResearch
    \/ MakeGraphReturn
    \/ MergeKey
    \/ MergeGraphsReturn
    \/ FormulaFor

Spec == Init /\ [][Next]_vars

----------------------------------------------------------------------------
(* lint(buf), src/poet/lint.py lines 4-16 *)

\* The text is a sequence of tokens, the pieces REGEXP tells apart:
\*   sp   a run of spaces                      [ ]+
\*   res  resource "name"                      resource "(.+?)"
\*   end  the letters e, n, d
\*   txt  other text, not empty, with no e-n-d and no resource "
\*   nl   a line break outside a stanza
Tok(t, name, id) == [t |-> t, name |-> name, id |-> id]
TSp == Tok("sp", EmptyStr, 0)
TRes(name) == Tok("res", name, 0)
TEnd == Tok("end", EmptyStr, 0)
TTxt(id) == Tok("txt", EmptyStr, id)
TNl == Tok("nl", EmptyStr, 0)

\* the first end that ".+?end" can stop at after the res token at i + 1:
\* ".+?" takes at least one character
MatchEnds(b, i) == {j \in (i + 3)..Len(b) : b[j].t = "end"}
MatchEnd(b, i) == CHOOSE j \in MatchEnds(b, i) : \A k \in MatchEnds(b, i) : j <= k

\* line 4 and line 8: re.findall(REGEXP, buf, re.MULTILINE | re.DOTALL) from
\* position i on: the (stanza, name) pairs of the matches, left to right,
\* not overlapping
RECURSIVE findall(_, _)
findall(b, i) ==
    IF i > Len(b) THEN <<>>
    ELSE IF /\ b[i].t = "sp"
            /\ i + 1 <= Len(b)
            /\ b[i + 1].t = "res"
            /\ MatchEnds(b, i) # {}
    THEN <<[value |-> SubSeq(b, i, MatchEnd(b, i)), key |-> b[i + 1].name]>>
             \o findall(b, MatchEnd(b, i) + 1)
    ELSE findall(b, i + 1)

\* line 9: {key: value for value, key in matches}
RECURSIVE MatchesDict(_)
MatchesDict(ms) ==
    IF ms = <<>> THEN <<>>
    ELSE LET m == ms[Len(ms)]
         IN  DictSet(MatchesDict(SubSeq(ms, 1, Len(ms) - 1)), m.key, m.value)

\* lines 10-12: the stanzas in sorted key order
LintOutput(matches) ==
    [i \in 1..Len(matches) |-> DictVal(matches, sorted(KeySet(matches))[i])]

\* line 13: "\n\n".join(output)
RECURSIVE Join(_)
Join(out) ==
    IF out = <<>> THEN <<>>
    ELSE IF Len(out) = 1 THEN out[1]
    ELSE out[1] \o <<TNl, TNl>> \o Join(Tail(out))

\* a resource stanza: its indentation, resource "name", a body and its end;
\* a body whose url holds the letters e-n-d (as the url of pendulum does)
\* has them as a token of its own
Stanza(name, id, url_end) ==
    <<TSp, TRes(name), TTxt(id)>> \o
    (IF url_end THEN <<TEnd, TTxt(id + 10)>> ELSE <<>>) \o <<TEnd>>

StanzaNames == {n_B, n_a, n_b}
StanzaIds == {1, 2}
Stanzas == {Stanza(n, k, e) : n \in StanzaNames, k \in StanzaIds, e \in BOOLEAN}

\* a file of stanzas, one blank line between them
RECURSIVE Buffer(_)
Buffer(sts) ==
    IF sts = <<>> THEN <<TNl>>
    ELSE Buffer(SubSeq(sts, 1, Len(sts) - 1)) \o sts[Len(sts)] \o <<TNl, TNl>>

StanzaLists == UNION {[1..n -> Stanzas] : n \in 0..MaxStanzas}

InitLint ==
    /\ pc = "lint"
    /\ buf \in {Buffer(sts) : sts \in StanzaLists}
    /\ output = <<>>
    /\ linted = <<>>
    /\ roots = <<>>
    /\ ri = 0
    /\ ws = [k \in Keys |-> NotInstalled]
    /\ pypi = [k \in Keys |-> 0]
    /\ publishes = 0
    /\ discovered = {}
    /\ visited = {}
    /\ stack = <<>>
    /\ pkg_deps = <<>>
    /\ dependencies = <<>>
    /\ di = 0
    /\ graphs = <<>>
    /\ result = <<>>
    /\ mi = 0
    /\ merged = <<>>
    /\ call = NoCall
    /\ ret = NoRecord
    /\ events = <<>>
    /\ exc = "none"
    /\ formula = NoFormula

\* lint(buf), lines 7-13
Lint ==
    /\ pc = "lint"
    /\ output' = LintOutput(MatchesDict(findall(buf, 1)))
    /\ linted' = Join(output')
    /\ pc' = "linted"
    /\ UNCHANGED <<roots, ri, ws, pypi, publishes, discovered, visited, stack, pkg_deps,
                   dependencies, di, graphs, result, mi, merged, call, ret, events, exc,
                   formula, buf>>

NextLint == Lint

SpecLint == InitLint /\ [][NextLint]_vars

----------------------------------------------------------------------------
(* C1 *)

\* root requires a, a requires B, b requires a
CycleFixture ==
    /\ roots = <<R_root>>
    /\ ws[n_root] = Dist("1.0", <<R_a>>, {}, NoExtraRequires)
    /\ ws[n_a] = Dist("1.0", <<R_B>>, {}, NoExtraRequires)
    /\ ws[n_b] = Dist("1.0", <<R_a>>, {}, NoExtraRequires)

\* C1: for every root and every installed-requirements relation, cycles and
\* diamonds included, recursive_dependencies ends (it returns, or an exception
\* of the lookup ends it); on the cycle root -> a -> b -> a it returns, and
\* returns exactly the names a, b, root.
C1_WalkTerminates ==
    /\ <>(pc \in {"walked", "raised"})
    /\ [](CycleFixture => pc # "raised")
    /\ [](CycleFixture /\ pc = "walked" => pkg_deps = <<n_a, n_b, n_root>>)

C1_Witness ==
    /\ CycleFixture
    /\ pc = "walked"
    /\ pkg_deps = <<n_a, n_b, n_root>>
    /\ Cardinality(visited) = 3

----------------------------------------------------------------------------
(* C6, C7, C8: research_package *)

IsUrlopen(e) == e.kind = "urlopen"
Urlopens == SelectSeq(events, IsUrlopen)
Warned(what) == \E i \in 1..Len(events) : events[i].kind = "warn" /\ events[i].what = what

\* every artefact of a description
AllFiles(pkg_data) ==
    {pkg_data.urls[i] : i \in 1..Len(pkg_data.urls)} \cup
    UNION {{pkg_data.releases[r].files[i] : i \in 1..Len(pkg_data.releases[r].files)} :
           r \in 1..Len(pkg_data.releases)}

Sdists(files) == {i \in 1..Len(files) : files[i].packagetype = "sdist"}

\* the artefact whose url was returned
Returned == CHOOSE f \in AllFiles(call.pkg_data) : f.url = ret.url

\* C6: when the chosen sdist carries digests.sha256, that digest is the
\* checksum and the only network request is the JSON description; when it
\* carries none, the artefact is fetched exactly once, after the description,
\* and the checksum is the SHA-256 of its content.
C6_ChecksumResolution ==
    (pc = "researched" /\ ret.url # EmptyStr) =>
        IF Returned.has_sha256
        THEN /\ ret.checksum = Returned.sha256
             /\ Len(Urlopens) = 1
             /\ Urlopens[1].what = "json"
        ELSE /\ ret.checksum = sha256(Returned.content)
             /\ Len(Urlopens) = 2
             /\ Urlopens[1].what = "json"
             /\ Urlopens[2].what = "sdist" /\ Urlopens[2].url = ret.url

\* the described digest is used although the url serves something else
C6_Witness ==
    /\ pc = "researched"
    /\ ret.url # EmptyStr
    /\ Returned.has_sha256
    /\ Returned.sha256 # sha256(Returned.content)
    /\ ret.checksum = Returned.sha256
    /\ Len(Urlopens) = 1

\* the releases whose normalised version is v and that hold an sdist
Matching(pkg_data, v) ==
    {r \in 1..Len(pkg_data.releases) :
        /\ safe_version(pkg_data.releases[r].version) = v
        /\ Sdists(pkg_data.releases[r].files) # {}}

\* the url returned is that of the first sdist of the list
IsFirstSdistOf(files) ==
    \E i \in Sdists(files) : /\ \A j \in Sdists(files) : i <= j
                              /\ ret.url = files[i].url

\* what C7 says of a call with version v
VersionFallback(v) ==
    IF Matching(call.pkg_data, v) = {}
    THEN /\ Warned("PackageVersionNotFoundWarning")
         /\ Sdists(call.pkg_data.urls) # {} => IsFirstSdistOf(call.pkg_data.urls)
    ELSE /\ ~Warned("PackageVersionNotFoundWarning")
         /\ \E r \in Matching(call.pkg_data, v) : IsFirstSdistOf(call.pkg_data.releases[r].files)

\* C7 as claimed: for every version given.  The code first parses the version
\* and goes on without one when it is not a valid version (lines 273-275).
C7_AsClaimed ==
    (pc = "researched" /\ call.version # None) => VersionFallback(call.version)

\* C7 (amended): called with a version that parses as a valid version, when
\* no release both has that version (the registry's string normalised) and
\* holds an sdist, research_package emits a PackageVersionNotFoundWarning and
\* returns the first sdist of urls; when such a release exists it returns that
\* release's first sdist and does not warn.  A version that does not parse is
\* handled as no version: no such warning, the first sdist of urls.
C7_VersionFallback ==
    /\ (pc = "researched" /\ call.version # None /\ call.version \notin InvalidVersions)
           => VersionFallback(call.version)
    /\ (pc = "researched" /\ call.version \in InvalidVersions)
           => /\ ~Warned("PackageVersionNotFoundWarning")
              /\ Sdists(call.pkg_data.urls) # {} => IsFirstSdistOf(call.pkg_data.urls)

\* two releases are described, one with an sdist, none of them is version
\* "1.0": the fallback to urls is taken
C7_Witness ==
    /\ pc = "researched"
    /\ call.version = "1.0"
    /\ Len(call.pkg_data.releases) = 2
    /\ \E r \in 1..2 : Sdists(call.pkg_data.releases[r].files) # {}
    /\ Matching(call.pkg_data, "1.0") = {}
    /\ Warned("PackageVersionNotFoundWarning")
    /\ IsFirstSdistOf(call.pkg_data.urls)

\* C8: when the description holds no sdist at all, research_package returns:
\* url and checksum are empty, name, homepage and checksum type are filled, a
\* warning is emitted and nothing but the description is fetched.
C8_NoSdist ==
    (pc = "researched" /\ \A f \in AllFiles(call.pkg_data) : f.packagetype # "sdist") =>
        /\ ret.url = EmptyStr
        /\ ret.checksum = EmptyStr
        /\ ret.name = call.pkg_data.info.name
        /\ ret.homepage = (IF call.pkg_data.info.has_home_page
                            THEN call.pkg_data.info.home_page ELSE EmptyStr)
        /\ ret.checksum_type = <<115, 104, 97, 50, 53, 54>>
        /\ Warned("UserWarning")
        /\ Len(Urlopens) = 1 /\ Urlopens[1].what = "json"

\* only wheels are described, for the version asked and in urls
C8_Witness ==
    /\ pc = "researched"
    /\ call.version = "1.0"
    /\ \A f \in AllFiles(call.pkg_data) : f.packagetype # "sdist"
    /\ \E r \in 1..Len(call.pkg_data.releases) :
           call.pkg_data.releases[r].version = "1.0" /\ call.pkg_data.releases[r].files # <<>>
    /\ call.pkg_data.urls # <<>>
    /\ ret.url = EmptyStr
    /\ Warned("UserWarning")

----------------------------------------------------------------------------
(* C2, C3, C4, C5: merge_graphs folding the graphs of make_graph *)

IsMakeGraphCall(e) == e.kind = "call" /\ e.what = "make_graph"

\* graph j has been folded into result
Folded(j) ==
    j < ri \/ (j = ri /\ (pc \in {"merge_next", "done", "rendered"} \/ exc = "Exception"))

\* the first graph that holds key k
FirstWith(k) == CHOOSE i \in 1..Len(graphs) :
                    /\ k \in KeySet(graphs[i])
                    /\ \A h \in 1..(i - 1) : k \notin KeySet(graphs[h])

\* the loop of merge_graphs has met key k of graph j
Met(j, k) ==
    \/ Folded(j)
    \/ /\ j = ri /\ j <= Len(graphs)
       /\ \/ pc = "merge_keys" /\ DictGet(graphs[j], k) < mi
          \/ pc = "raised" /\ exc = "AttributeError" /\ DictGet(graphs[j], k) <= mi

\* key k of graph j is held by an earlier graph with another record
Conflicts(j, k) ==
    /\ FirstWith(k) < j
    /\ DictVal(graphs[FirstWith(k)], k) # DictVal(graphs[j], k)

ConflictWarned(k, version) ==
    \E i \in 1..Len(events) : /\ events[i].kind = "warn"
                               /\ events[i].what = "ConflictingDependencyWarning"
                               /\ events[i].name = k
                               /\ events[i].version = version

\* C2: merge_graphs is first-seen-wins: once a key of a graph has been met
\* the result maps it to the record of the first graph holding it, also when
\* a later graph disagrees, and the merge returns the union of the keys.
C2_FirstSeenWins ==
    /\ \A j \in 1..Len(graphs) : \A k \in KeySet(graphs[j]) :
          Met(j, k) => /\ k \in KeySet(result)
                       /\ DictVal(result, k) = DictVal(graphs[FirstWith(k)], k)
                       /\ Conflicts(j, k) => pc # "raised"
    /\ pc = "done" => KeySet(merged) = UNION {KeySet(graphs[j]) : j \in 1..Len(graphs)}

\* C3: a key met with another record than the one held is no error: a
\* ConflictingDependencyWarning is emitted for it, the first record is kept
\* and the fold goes on.
C3_ConflictWarns ==
    \A j \in 1..Len(graphs) : \A k \in KeySet(graphs[j]) :
        (Met(j, k) /\ Conflicts(j, k)) =>
            /\ exc # "AttributeError"
            /\ ConflictWarned(k, DictVal(graphs[FirstWith(k)], k)["version"])
            /\ DictVal(result, k) = DictVal(graphs[FirstWith(k)], k)

\* C4: merging a graph of make_graph with itself gives that graph, keys,
\* order and records, and no ConflictingDependencyWarning (nor an error).
C4_MergeIdempotent ==
    (Len(roots) = 2 /\ Len(graphs) = 2 /\ graphs[1] = graphs[2]) =>
        /\ exc # "AttributeError"
        /\ ~Warned("ConflictingDependencyWarning")
        /\ pc = "done" => merged = graphs[1]

C4_Witness ==
    /\ Len(roots) = 2 /\ Len(graphs) = 2 /\ graphs[1] = graphs[2]
    /\ Len(graphs[1]) >= 2
    /\ pc = "done"
    /\ merged = graphs[1]

IsLower(k) == lower(k) = k
Ascending(keys) == \A i \in 1..(Len(keys) - 1) : StrLess(keys[i], keys[i + 1])

\* C5: the keys of every graph make_graph returns, and of the graph
\* merge_graphs returns, are lower-cased names in strictly ascending order
\* (so without duplicates), whatever the order and the case of the roots;
\* the merged keys are those of the graphs.
C5_KeysSorted ==
    /\ \A j \in 1..Len(graphs) :
          /\ Ascending(DictKeys(graphs[j]))
          /\ \A k \in KeySet(graphs[j]) : IsLower(k)
    /\ pc = "done" =>
          /\ Ascending(DictKeys(merged))
          /\ \A k \in KeySet(merged) : IsLower(k)
          /\ KeySet(merged) = UNION {KeySet(graphs[j]) : j \in 1..Len(graphs)}

\* roots "root" then "A": the graph of A brings a key that sorts before one
\* of the first graph
C5_Witness ==
    /\ pc = "done"
    /\ roots = <<R_root, R_A>>
    /\ DictKeys(result) # DictKeys(merged)
    /\ n_a \in KeySet(merged)

----------------------------------------------------------------------------
(* C9, C10: make_graph *)

\* the requirements declared by the installed distribution a requirement
\* names, with the extras the requirement asks for
Declared(req) ==
    IF ws[req.key].installed
    THEN LET reqs == ws[req.key].requires \o
                     (IF "security" \in req.extras
                      THEN ws[req.key].extra_requires["security"] ELSE <<>>)
         IN  {reqs[i] : i \in 1..Len(reqs)}
    ELSE {}

\* the requirements reachable from a set of requirements
RECURSIVE Reachable(_)
Reachable(N) ==
    LET more == N \cup UNION {Declared(n) : n \in N}
    IN  IF more = N THEN N ELSE Reachable(more)

ReachableNames(root) == {n.key : n \in Reachable({root})}

IgnoreSet == {n_argparse, n_pip, n_setuptools, n_wsgiref}

\* C9: no graph make_graph returns has argparse, pip, setuptools or wsgiref
\* as a key; its keys are the other names reachable from the root, those
\* reachable only through an ignored package included.
C9_IgnoreSetExcluded ==
    \A j \in 1..Len(graphs) :
        /\ KeySet(graphs[j]) \cap IgnoreSet = {}
        /\ KeySet(graphs[j]) = ReachableNames(roots[j]) \ IgnoreSet

\* root requires pip alone and pip requires B: b is a key, pip is not
C9_Witness ==
    /\ Len(graphs) >= 1
    /\ roots[1] = R_root
    /\ ws[n_root].installed /\ ws[n_root].requires = <<R_pip>>
    /\ ws[n_pip].installed /\ ws[n_pip].requires = <<R_B>>
    /\ n_b \in KeySet(graphs[1])
    /\ n_pip \notin KeySet(graphs[1])

\* the positions in events of the calls of make_graph, in order
Starts == SelectSeq([i \in 1..Len(events) |-> i],
                    LAMBDA i : IsMakeGraphCall(events[i]))

\* the events of the j-th make_graph call: those from its call up to the
\* next call of make_graph
EventsOf(j) ==
    LET starts == Starts
    IN  {i \in 1..Len(events) :
            /\ j <= Len(starts)
            /\ starts[j] <= i
            /\ (j < Len(starts) => i < starts[j + 1])}

NotInstalledWarnings(j, k) ==
    {i \in EventsOf(j) : /\ events[i].kind = "warn"
                          /\ events[i].what = "PackageNotInstalledWarning"
                          /\ events[i].name = k}

ResearchCalls(j, k) ==
    {i \in EventsOf(j) : /\ events[i].kind = "call"
                          /\ events[i].what = "research_package"
                          /\ events[i].name = k}

\* C10: in every graph make_graph returns, each discovered name outside the
\* ignore set is a key; for a name without an installed version exactly one
\* PackageNotInstalledWarning was emitted, its version is None and
\* research_package was called once for it, with version None; for an
\* installed name there is no such warning and research_package was called
\* once, with the installed version.
C10_NotInstalledKept ==
    \A j \in 1..Len(graphs) :
        /\ ReachableNames(roots[j]) \ IgnoreSet \subseteq KeySet(graphs[j])
        /\ \A k \in KeySet(graphs[j]) :
              LET v == IF ws[k].installed THEN ws[k].version ELSE None IN
              /\ Cardinality(NotInstalledWarnings(j, k)) = (IF ws[k].installed THEN 0 ELSE 1)
              /\ Cardinality(ResearchCalls(j, k)) = 1
              /\ \A i \in ResearchCalls(j, k) : events[i].version = v
              /\ DictVal(graphs[j], k)["version"] = v

\* a graph with a key that is not installed and a key that is
C10_Witness ==
    /\ Len(graphs) >= 1
    /\ n_a \in KeySet(graphs[1]) /\ ~ws[n_a].installed
    /\ DictVal(graphs[1], n_a)["version"] = None
    /\ Cardinality(NotInstalledWarnings(1, n_a)) = 1
    /\ n_root \in KeySet(graphs[1]) /\ ws[n_root].installed
    /\ DictVal(graphs[1], n_root)["version"] = "1.0"

----------------------------------------------------------------------------
(* C11: the root in its own graph *)

RootName(j) == lower(roots[j].project_name)

\* C11 as claimed: the lower-cased name of the root is a key of every graph
\* make_graph returns, also when the root is a name of the ignore set.
C11_AsClaimed ==
    \A j \in 1..Len(graphs) : RootName(j) \in KeySet(graphs[j])

\* C11: the lower-cased name of the root is a key of the graph make_graph
\* returns for it exactly when it is none of argparse, pip, setuptools and
\* wsgiref; a root of the ignore set is dropped from its own graph like any
\* other name.
C11_RootPresent ==
    \A j \in 1..Len(graphs) :
        RootName(j) \in KeySet(graphs[j]) <=> RootName(j) \notin IgnoreSet

\* roots "A" then "pip", pip requiring B: the first graph holds a, the second
\* holds b and not pip
C11_Witness ==
    /\ roots = <<R_A, R_pip>>
    /\ Len(graphs) = 2
    /\ n_a \in KeySet(graphs[1])
    /\ n_pip \notin KeySet(graphs[2])
    /\ n_b \in KeySet(graphs[2])

----------------------------------------------------------------------------
(* C12: the walk and distributions that are not installed *)

\* the lookup of an installed distribution that fails: the requirement pins
\* another version than the installed one, or asks for an extra the
\* distribution does not declare
LookupFails(req) ==
    /\ ws[req.key].installed
    /\ \/ req.pin # NoPin /\ req.pin # ws[req.key].version
       \/ ~(req.extras \subseteq ws[req.key].extra_names)

\* C12: a requirement whose distribution is not installed ends its branch
\* and nothing else: the walk emits no warning, it raises only where the
\* lookup of an installed distribution fails, and what it returns is
\* exactly the names of the requirements reachable from the root through
\* installed distributions (the root's name among them), each once.
C12_AbsentIsSilent ==
    /\ \A i \in 1..Len(events) : events[i].kind # "warn"
    /\ exc # "DistributionNotFound"
    /\ pc = "raised" => \E n \in Reachable({roots[ri]}) : LookupFails(n)
    /\ pc = "walked" =>
          /\ {pkg_deps[i] : i \in 1..Len(pkg_deps)} = ReachableNames(roots[ri])
          /\ Len(pkg_deps) = Cardinality(ReachableNames(roots[ri]))

\* root requires a then B, a is absent, b is installed and requires root:
\* the walk went on to b after a and returned the three names
C12_Witness ==
    /\ pc = "walked"
    /\ ws[n_root].installed /\ ws[n_root].requires = <<R_a, R_B>>
    /\ ~ws[n_a].installed
    /\ ws[n_b].installed /\ ws[n_b].requires = <<R_root>>
    /\ hashCmp(R_a) \in visited /\ hashCmp(R_B) \in visited
    /\ pkg_deps = <<n_a, n_b, n_root>>

----------------------------------------------------------------------------
(* C15: the walk and the extra "security" of requests *)

\* the extras the claim has a requirement looked up with
ClaimedExtras(req) ==
    IF req.key = n_requests THEN req.extras \cup {"security"} ELSE req.extras

ClaimedDeclared(req) ==
    IF ws[req.key].installed
    THEN LET reqs == ws[req.key].requires \o
                     (IF "security" \in ClaimedExtras(req)
                      THEN ws[req.key].extra_requires["security"] ELSE <<>>)
         IN  {reqs[i] : i \in 1..Len(reqs)}
    ELSE {}

RECURSIVE ClaimedReachable(_)
ClaimedReachable(N) ==
    LET more == N \cup UNION {ClaimedDeclared(n) : n \in N}
    IN  IF more = N THEN N ELSE ClaimedReachable(more)

\* C15: where the walk expands a requirement on requests, the requirements
\* of the extra "security" of requests are discovered too, also when the
\* requirement names no extra; any other requirement is expanded with its
\* own extras alone.
C15_RequestsSecurity ==
    pc = "walked" =>
        {pkg_deps[i] : i \in 1..Len(pkg_deps)} =
            {n.key : n \in ClaimedReachable({roots[ri]})}

----------------------------------------------------------------------------
(* C13, C14: formula_for *)

GivenName == roots[1].project_name
Records(d) == {d[i][2] : i \in 1..Len(d)}
Resources == {formula.resources[i] : i \in 1..Len(formula.resources)}

\* the root has a record in the merged graph, under the spelling it was
\* given with or under the lower-cased one
RootInMerged == GivenName \in KeySet(merged) \/ lower(GivenName) \in KeySet(merged)

\* C13: formula_for raises, with nothing rendered, exactly when the merged
\* graph holds the root under neither spelling, which is when the root is
\* a name of the ignore set; otherwise what it renders is the root's
\* record as the package and, as resources, every other record of the
\* merged graph, once each and in its order, the root's record left out.
C13_RootAbsentFails ==
    /\ (pc = "raised" /\ exc = "Exception") =>
          /\ ~RootInMerged
          /\ lower(GivenName) \in IgnoreSet
          /\ ~formula.rendered
    /\ pc = "rendered" =>
          /\ RootInMerged
          /\ lower(GivenName) \notin IgnoreSet
          /\ formula.rendered
          /\ formula.package = DictVal(merged, lower(GivenName))
          /\ Resources = Records(merged) \ {formula.package}
          /\ Len(formula.resources) = Len(merged) - 1
          /\ \A i, j \in 1..Len(formula.resources) :
                i < j => DictGet(merged, lower(formula.resources[i]["name"]))
                           < DictGet(merged, lower(formula.resources[j]["name"]))
    /\ ~formula.rendered => formula = NoFormula

\* the root is pip and a second root brought records: formula_for raised
C13_Witness ==
    /\ pc = "raised" /\ exc = "Exception"
    /\ roots[1] = R_pip
    /\ Len(roots) = 2
    /\ merged # <<>>
    /\ ~formula.rendered

\* C14: a root spelled with upper-case letters is found under its
\* lower-cased key: formula_for does not fail for it, the package it renders
\* is the record of that key, and neither that record nor any record of
\* that name is among the resources.
C14_CaseInsensitiveRoot ==
    (GivenName # lower(GivenName)) =>
        /\ exc # "Exception"
        /\ pc = "rendered" =>
              /\ lower(GivenName) \in KeySet(merged)
              /\ GivenName \notin KeySet(merged)
              /\ formula.package = DictVal(merged, lower(GivenName))
              /\ formula.package \notin Resources
              /\ \A r \in Resources : lower(r["name"]) # lower(GivenName)

\* the root is "A" and other records were merged: the formula is rendered
\* for the record of a with the others as resources
C14_Witness ==
    /\ pc = "rendered"
    /\ roots[1] = R_A
    /\ formula.package = DictVal(merged, n_a)
    /\ Len(formula.resources) >= 1

----------------------------------------------------------------------------
(* C16: the categories of the warnings *)

\* the categories of the other three conditions, and the generic one
OtherCategories ==
    {"PackageNotInstalledWarning", "PackageVersionNotFoundWarning",
     "ConflictingDependencyWarning"}
GenericCategory == "UserWarning"

\* C16: each recoverable condition has a warning category of its own: where
\* research_package finds no sdist at all, the warning it emits is of a
\* category that is neither the generic one nor the category of another
\* condition, and no warning of a run is of the generic category.
C16_DistinctCategories ==
    /\ \A i \in 1..Len(events) :
          events[i].kind = "warn" => events[i].what # GenericCategory
    /\ (pc = "researched" /\ \A f \in AllFiles(call.pkg_data) : f.packagetype # "sdist") =>
          \E i \in 1..Len(events) :
              /\ events[i].kind = "warn"
              /\ events[i].what \notin OtherCategories \cup {GenericCategory}

----------------------------------------------------------------------------
(* C17: lint *)

\* the stanzas of the text: from an indented resource "name" to the end
\* that closes it (a stanza of this model is closed by its last token)
RECURSIVE StanzasOf(_, _)
StanzasOf(b, i) ==
    IF i > Len(b) THEN {}
    ELSE IF b[i].t = "sp"
    THEN LET j == CHOOSE k \in i..Len(b) :
                      /\ b[k].t = "end"
                      /\ (k = Len(b) \/ b[k + 1].t = "nl")
                      /\ \A h \in i..(k - 1) : ~(b[h].t = "end" /\ b[h + 1].t = "nl")
         IN  {SubSeq(b, i, j)} \cup StanzasOf(b, j + 1)
    ELSE StanzasOf(b, i + 1)

NameOf(stanza) == stanza[2].name

\* C17: lint returns stanzas of its input, their text unchanged, one for
\* each distinct resource name, in ascending order of the names whatever
\* their order in the input, joined by one blank line.
C17_LintSorts ==
    pc = "linted" =>
        /\ \A i \in 1..Len(output) : output[i] \in StanzasOf(buf, 1)
        /\ {NameOf(output[i]) : i \in 1..Len(output)} = {NameOf(st) : st \in StanzasOf(buf, 1)}
        /\ \A i \in 1..(Len(output) - 1) : StrLess(NameOf(output[i]), NameOf(output[i + 1]))
        /\ linted = Join(output)

----------------------------------------------------------------------------
(* C18: the order of warnings and registry lookups *)

IsResearchCall(e) == e.kind = "call" /\ e.what = "research_package"
IsNotInstalledWarning(e) == e.kind = "warn" /\ e.what = "PackageNotInstalledWarning"
IsConflictWarning(e) == e.kind = "warn" /\ e.what = "ConflictingDependencyWarning"

\* the events from the j-th call of make_graph up to the next one
EventSeq(j) ==
    LET starts == Starts
    IN  SubSeq(events, starts[j],
               IF j < Len(starts) THEN starts[j + 1] - 1 ELSE Len(events))

Names(evs) == [i \in 1..Len(evs) |-> evs[i].name]

\* the events of one make_graph call that has returned graph g: its
\* PackageNotInstalledWarnings come first, in ascending name order; then the
\* lookups, one for each key of g in ascending order, each followed by its
\* own requests, log lines and warnings and by nothing of another lookup
OrderedCall(evs, g) ==
    LET body == Tail(evs)
        made == SelectSeq(body, LAMBDA e : ~IsConflictWarning(e))
        warned == SelectSeq(made, IsNotInstalledWarning)
        lookups == SelectSeq(made, IsResearchCall)
        first == IF \E i \in 1..Len(made) : IsResearchCall(made[i])
                 THEN CHOOSE i \in 1..Len(made) :
                          /\ IsResearchCall(made[i])
                          /\ \A h \in 1..(i - 1) : ~IsResearchCall(made[h])
                 ELSE Len(made) + 1
    IN  /\ IsMakeGraphCall(Head(evs))
        /\ \A i \in 1..Len(made) : IsNotInstalledWarning(made[i]) <=> i < first
        /\ Ascending(Names(warned))
        /\ Names(lookups) = DictKeys(g)
        /\ Ascending(Names(lookups))
        /\ \A i \in first..Len(made) :
              ~IsResearchCall(made[i]) => made[i].name = made[i - 1].name
        \* a conflict of the merge is met after the events of the graph
        /\ \A i \in 1..Len(body) :
              IsConflictWarning(body[i]) => \A h \in (i + 1)..Len(body) : IsConflictWarning(body[h])

\* C18: the warnings and lookups of each make_graph call that returned
\* are ordered as OrderedCall says and are the same for the same root and
\* the same registry answers; the graphs are built and folded one root
\* after the other: the events of a root's graph are complete before the
\* next root's begin and before a conflict of its fold is met, and a
\* conflict is met only from the second root on.
C18_EventOrder ==
    /\ Len(Starts) = ri
    /\ Len(graphs) \in {ri - 1, ri}
    /\ \A j \in 1..Len(graphs) : OrderedCall(EventSeq(j), graphs[j])
    /\ \A i, j \in 1..Len(graphs) :
          (roots[i] = roots[j] /\ graphs[i] = graphs[j] /\ ~Warned("ConflictingDependencyWarning"))
              => EventSeq(i) = EventSeq(j)
    /\ (exc = "AttributeError" \/ Warned("ConflictingDependencyWarning")) =>
          /\ ri >= 2
          /\ Len(graphs) = ri
    /\ \A j \in 1..Len(Starts) :
          (\E i \in 1..Len(EventSeq(j)) : IsConflictWarning(EventSeq(j)[i])) => j >= 2

\* two roots: the first graph has two names that are not installed and an
\* sdist that is downloaded; the second graph has lookups of its own
C18_Witness ==
    /\ pc = "done"
    /\ Len(graphs) = 2
    /\ Len(SelectSeq(EventSeq(1), IsNotInstalledWarning)) >= 2
    /\ \E i \in 1..Len(EventSeq(1)) :
          EventSeq(1)[i].kind = "urlopen" /\ EventSeq(1)[i].what = "sdist"
    /\ Len(SelectSeq(EventSeq(2), IsResearchCall)) >= 2

====
